---- MODULE Spec2Model ----
(***************************************************************************)
(* Model of typed-arena (src/src/lib.rs): Arena<T>, ChunkList<T>,          *)
(* IterableArena<T> and Iter.                                              *)
(*                                                                         *)
(* A Vec<T> is a record [items, cap, reallocs]: its elements, its          *)
(* capacity, and the number of times its buffer has been reallocated.      *)
(* T is a sized (non zero-sized) type.  Element values are the numbers     *)
(* 1, 2, 3, ... in the order the caller produced them, so that two         *)
(* elements are never confused; a slot handed out by alloc_uninitialized   *)
(* holds Uninit.  usize is UsizeBits wide.                                 *)
(***************************************************************************)
EXTENDS Integers, Sequences, FiniteSets, TLC

\* ------------------------------------------------------------------ bounds
UsizeBits == 5
MaxInitCap == 2
MaxBatch == 3
MaxElems == 5
MaxNum == 2

\* --------------------------------------------------------------- constants
MIN_CAPACITY == 1
None == -1
Uninit == 0

RECURSIVE Pow2(_)
Pow2(e) == IF e = 0 THEN 1 ELSE 2 * Pow2(e - 1)

MaxUsize == Pow2(UsizeBits) - 1

Max(a, b) == IF a >= b THEN a ELSE b

VARIABLES
    kind,       \* "Arena" or "IterableArena": the type the caller holds
    chunks,     \* ChunkList: [current |-> Vec, rest |-> Seq(Vec)]
    iter,       \* Iter: [live, done, chunk, i]
    status,     \* "live", "consumed" (into_vec ran) or the panic message
    args,       \* the last call's arguments: [k, hint]
    ret,        \* what the last call returned: [op, start, slice, val]
    out,        \* the Vec<T> returned by into_vec
    produced,   \* number of elements handed to alloc / alloc_extend so far
    refs,       \* the references returned so far: [chunk, off, val, reallocs]
    growth,     \* the ChunkList::reserve of the last allocation call
    yielded,    \* what the live Iter has yielded so far
    sinceIter,  \* an allocation call was made since iter() created the Iter
    hist,       \* [n, allocs, extends, uninits]: with_capacity(n) and call counts
    reentry     \* the arena call made by the last alloc_extend's iterator: [op, at]

vars == <<kind, chunks, iter, status, args, ret, out, produced, refs, growth,
          yielded, sinceIter, hist, reentry>>

\* ------------------------------------------------------------------- Vec<T>
NewVec(n) == [items |-> <<>>, cap |-> n, reallocs |-> 0]

\* Amortized growth of a full Vec on push (reserve(1) on a full buffer).
GrowAmortized(cap) == Max(Max(2 * cap, cap + 1), 4)

VecPushNoGrow(v, x) == [v EXCEPT !.items = Append(@, x)]

VecPush(v, x) ==
    IF Len(v.items) < v.cap
    THEN [v EXCEPT !.items = Append(@, x)]
    ELSE [items |-> Append(v.items, x),
          cap |-> GrowAmortized(v.cap),
          reallocs |-> v.reallocs + 1]

RECURSIVE VecExtend(_, _)
VecExtend(v, xs) ==
    IF xs = <<>> THEN v ELSE VecExtend(VecPush(v, Head(xs)), Tail(xs))

Take(xs, n) == SubSeq(xs, 1, n)
Drop(xs, n) == SubSeq(xs, n + 1, Len(xs))

\* usize::checked_next_power_of_two, before the overflow check.
RECURSIVE NextPow2From(_, _)
NextPow2From(p, n) == IF p >= n THEN p ELSE NextPow2From(2 * p, n)

NextPowerOfTwo(n) == NextPow2From(1, n)


\* ------------------------------------------------------------- ChunkList<T>
Chunks(cl) == Append(cl.rest, cl.current)

RECURSIVE SumLen(_)
SumLen(vs) == IF vs = <<>> THEN 0 ELSE Len(Head(vs).items) + SumLen(Tail(vs))

Total(cl) == SumLen(Chunks(cl))

NoGrowth == [from |-> "none", old |-> 0, req |-> 0, new |-> 0, len |-> 0]

\* cmp::max(double_cap, required_cap), before the overflow checks.
NewCapacityNoDoubling(cap, additional) == Max(cap, NextPowerOfTwo(additional))

NewCapacity(cap, additional) == Max(2 * cap, NextPowerOfTwo(additional))

\* Neither checked_mul(2) nor checked_next_power_of_two() returns None.
ReserveOk(cl, additional) ==
    /\ 2 * cl.current.cap <= MaxUsize
    /\ NextPowerOfTwo(additional) <= MaxUsize

\* self.rest.push(chunk): the chunk that was current goes to the end of rest.
ReservePrepend(cl, additional) ==
    [current |-> NewVec(NewCapacity(cl.current.cap, additional)),
     rest |-> <<cl.current>> \o cl.rest]

Reserve(cl, additional) ==
    [current |-> NewVec(NewCapacity(cl.current.cap, additional)),
     rest |-> Append(cl.rest, cl.current)]

GrowthOf(from, cl, additional, r) ==
    [from |-> from, old |-> cl.current.cap, req |-> additional,
     new |-> r.current.cap, len |-> Len(r.current.items)]

\* ------------------------------------------------------ Arena::alloc_extend
Result(cl, start, st, g) ==
    [chunks |-> cl, start |-> start, status |-> st, growth |-> g]

\* A Vec that grew past usize::MAX elements cannot exist.
VecStatus(v) == IF v.cap > MaxUsize THEN "capacity overflow" ELSE "live"

\* previous_chunk_len - i, the start of the drained range.
DrainStartOffByOne(previous_chunk_len, i) ==
    IF previous_chunk_len - i > 0 THEN previous_chunk_len - i - 1 ELSE 0

DrainStart(previous_chunk_len, i) == previous_chunk_len - i

\* next_item_index after the elements were moved to the new chunk.
SpliceIndexStale(old_index) == old_index

SpliceIndex(old_index) == 0

\* Lines 211-225: the current chunk is full and the iterator yielded elem.
Splice(cl, elem, iter_rest, i, old_index) ==
    IF ~ReserveOk(cl, i + 1)
    THEN Result(cl, old_index, "capacity overflow", NoGrowth)
    ELSE LET r == Reserve(cl, i + 1)
             last == Len(r.rest)
             previous_chunk == r.rest[last]
             previous_chunk_len == Len(previous_chunk.items)
             from == DrainStart(previous_chunk_len, i)
             drained == Drop(previous_chunk.items, from)
             kept == [previous_chunk EXCEPT !.items = Take(@, from)]
             c1 == VecExtend(r.current, drained)
             c2 == VecPush(c1, elem)
             c3 == VecExtend(c2, iter_rest)
         IN  Result([current |-> c3, rest |-> [r.rest EXCEPT ![last] = kept]],
                    SpliceIndex(old_index), VecStatus(c3),
                    GrowthOf("splice", cl, i + 1, r))

\* Lines 207-230: the loop over the iterator when the size hint fits.
RECURSIVE ExtendLoop(_, _, _, _)
ExtendLoop(cl, it, i, next_item_index) ==
    IF it = <<>>
    THEN Result(cl, next_item_index, "live", NoGrowth)
    ELSE IF Len(cl.current.items) = cl.current.cap
         THEN Splice(cl, Head(it), Tail(it), i, next_item_index)
         ELSE ExtendLoop([cl EXCEPT !.current = VecPush(@, Head(it))],
                         Tail(it), i + 1, next_item_index)

\* alloc_extend on an iterator yielding elems, with size_hint().0 = iter_min_len.
\* checks: the build panics on integer overflow; otherwise the sum wraps.
AllocExtendResultEager(cl, elems, iter_min_len, checks) ==
    LET len == Len(cl.current.items)
        sum == len + iter_min_len
    IN  IF sum > MaxUsize /\ checks
        THEN Result(cl, 0, "attempt to add with overflow", NoGrowth)
        ELSE IF sum % (MaxUsize + 1) >= cl.current.cap
        THEN IF ~ReserveOk(cl, iter_min_len)
             THEN Result(cl, 0, "capacity overflow", NoGrowth)
             ELSE LET r == Reserve(cl, iter_min_len)
                      c == VecExtend(r.current, elems)
                  IN  Result([r EXCEPT !.current = c], 0, VecStatus(c),
                             GrowthOf("hint", cl, iter_min_len, r))
        ELSE ExtendLoop(cl, elems, 0, len)

AllocExtendResult(cl, elems, iter_min_len, checks) ==
    LET len == Len(cl.current.items)
        sum == len + iter_min_len
    IN  IF sum > MaxUsize /\ checks
        THEN Result(cl, 0, "attempt to add with overflow", NoGrowth)
        ELSE IF sum % (MaxUsize + 1) > cl.current.cap
        THEN IF ~ReserveOk(cl, iter_min_len)
             THEN Result(cl, 0, "capacity overflow", NoGrowth)
             ELSE LET r == Reserve(cl, iter_min_len)
                      c == VecExtend(r.current, elems)
                  IN  Result([r EXCEPT !.current = c], 0, VecStatus(c),
                             GrowthOf("hint", cl, iter_min_len, r))
        ELSE ExtendLoop(cl, elems, 0, len)

\* The slice &mut chunks.current[next_item_index..].
Slice(v, next_item_index) == Drop(v.items, next_item_index)


\* ----------------------------------------------- Arena::alloc_uninitialized
RECURSIVE UninitSeq(_)
UninitSeq(n) == IF n = 0 THEN <<>> ELSE <<Uninit>> \o UninitSeq(n - 1)

\* Vec::set_len: slots past the old length are uninitialized, slots past the
\* new length are forgotten.
SetLenAppends(v, new_len) == [v EXCEPT !.items = @ \o UninitSeq(new_len)]

SetLen(v, new_len) ==
    IF new_len <= Len(v.items)
    THEN [v EXCEPT !.items = Take(@, new_len)]
    ELSE [v EXCEPT !.items = @ \o UninitSeq(new_len - Len(v.items))]

AllocUninitializedResult(cl, num, checks) ==
    LET len == Len(cl.current.items)
        sum == len + num
    IN  IF sum > MaxUsize /\ checks
        THEN Result(cl, 0, "attempt to add with overflow", NoGrowth)
        ELSE IF sum % (MaxUsize + 1) > cl.current.cap /\ ~ReserveOk(cl, num)
        THEN Result(cl, 0, "capacity overflow", NoGrowth)
        ELSE LET grows == sum % (MaxUsize + 1) > cl.current.cap
                 r == IF grows THEN Reserve(cl, num) ELSE cl
                 g == IF grows THEN GrowthOf("uninit", cl, num, r) ELSE NoGrowth
                 next_item_index == Len(r.current.items)
                 new_len == (next_item_index + num) % (MaxUsize + 1)
                 c == SetLen(r.current, new_len)
             IN  IF next_item_index + num > MaxUsize /\ checks
                 THEN Result(r, next_item_index, "attempt to add with overflow", g)
                 ELSE Result([r EXCEPT !.current = c], next_item_index,
                             IF next_item_index > new_len
                             THEN "slice index out of range" ELSE "live", g)

\* ---------------------------------------------------------- Arena::into_vec
RECURSIVE AppendAll(_, _)
AppendAll(result, vs) ==
    IF vs = <<>> THEN result ELSE AppendAll(result \o Head(vs).items, Tail(vs))

IntoVecCurrentFirst(cl) == AppendAll(cl.current.items, cl.rest)

IntoVec(cl) == AppendAll(<<>>, cl.rest) \o cl.current.items

\* --------------------------------------------------------------- Iter::next
NewIter == [live |-> TRUE, done |-> FALSE, chunk |-> 0, i |-> 0]

NoIter == [live |-> FALSE, done |-> FALSE, chunk |-> 0, i |-> 0]

NextResult(it, val, st) == [iter |-> it, val |-> val, status |-> st]

\* chunk[i] with Rust's bounds check; i is 0-based.
Index(it, chunk, i) ==
    IF i < Len(chunk.items)
    THEN NextResult(it, chunk.items[i + 1], "live")
    ELSE NextResult(it, None, "index out of bounds")

IterNextNotFused(it, cl) ==
    IF it.chunk = Len(cl.rest)
    THEN IF it.i = Len(cl.current.items)
         THEN NextResult([it EXCEPT !.done = TRUE], None, "live")
         ELSE Index([it EXCEPT !.i = it.i + 1], cl.current, it.i)
    ELSE LET chunk == cl.rest[it.chunk + 1]
             moved == IF it.i = Len(chunk.items)
                      THEN [it EXCEPT !.chunk = it.chunk + 1, !.i = 0]
                      ELSE it
         IN  Index([moved EXCEPT !.i = moved.i + 1], chunk, moved.i)

IterNext(it, cl) ==
    IF it.done
    THEN NextResult(it, None, "live")
    ELSE IF it.chunk = Len(cl.rest)
    THEN LET chunk == cl.current
         IN  IF it.i = Len(chunk.items)
             THEN NextResult([it EXCEPT !.done = TRUE], None, "live")
             ELSE Index([it EXCEPT !.i = it.i + 1], chunk, it.i)
    ELSE LET chunk == cl.rest[it.chunk + 1]
             moved == IF it.i = Len(chunk.items)
                      THEN [it EXCEPT !.chunk = it.chunk + 1, !.i = 0]
                      ELSE it
         IN  Index([moved EXCEPT !.i = moved.i + 1], chunk, moved.i)


\* ------------------------------------------------------------------ actions
Args(k, hint) == [k |-> k, hint |-> hint]

NoReentry == [op |-> "none", at |-> 0]

Ret(op, start, slice, val) ==
    [op |-> op, start |-> start, slice |-> slice, val |-> val]

\* The next k values the caller produces.
Fresh(k) == [j \in 1..k |-> produced + j]

\* References into the current chunk for the slice starting at start.
RefsTo(cl, start) ==
    {[chunk |-> Len(cl.rest), off |-> off, val |-> cl.current.items[off + 1],
      reallocs |-> cl.current.reallocs] :
        off \in start..(Len(cl.current.items) - 1)}

UninitNums == (0..MaxNum) \cup {Pow2(UsizeBits - 1), MaxUsize}

\* Whether the build panics on integer overflow matters only to a call whose
\* sum len + n overflows.
OverflowChecks(n) ==
    IF Len(chunks.current.items) + n > MaxUsize THEN BOOLEAN ELSE {TRUE}

\* Arena::with_capacity(n) and IterableArena::with_capacity(n).  Arena::new()
\* is with_capacity(INITIAL_SIZE / size_of::<T>()).
Init ==
    /\ kind \in {"Arena", "IterableArena"}
    /\ \E n \in 0..MaxInitCap :
          /\ chunks = [current |-> NewVec(Max(MIN_CAPACITY, n)), rest |-> <<>>]
          /\ hist = [n |-> n, allocs |-> 0, extends |-> FALSE, uninits |-> FALSE]
    /\ iter = NoIter
    /\ status = "live"
    /\ args = Args(0, 0)
    /\ ret = Ret("with_capacity", 0, <<>>, None)
    /\ out = <<>>
    /\ produced = 0
    /\ refs = {}
    /\ growth = NoGrowth
    /\ yielded = <<>>
    /\ sinceIter = FALSE
    /\ reentry = NoReentry

\* What an allocation call leaves behind, given the Result of its body.
Allocated(op, r, k) ==
    /\ chunks' = r.chunks
    /\ status' = r.status
    /\ growth' = r.growth
    /\ sinceIter' = TRUE
    /\ IF r.status = "live"
       THEN /\ ret' = Ret(op, r.start, Slice(r.chunks.current, r.start),
                          IF op = "alloc"
                          THEN r.chunks.current.items[r.start + 1] ELSE None)
            /\ produced' = produced + k
            /\ refs' = refs \cup RefsTo(r.chunks, r.start)
       ELSE /\ ret' = Ret(op, 0, <<>>, None)
            /\ UNCHANGED <<produced, refs>>
    /\ UNCHANGED <<kind, iter, out, yielded>>

\* Arena::alloc and IterableArena::alloc.
Alloc ==
    /\ status = "live"
    /\ Total(chunks) < MaxElems
    /\ LET value == produced + 1
           len == Len(chunks.current.items)
       IN  \E checks \in OverflowChecks(1) :
             Allocated("alloc",
                IF len < chunks.current.cap
                THEN Result([chunks EXCEPT !.current = VecPush(@, value)],
                            len, "live", NoGrowth)
                ELSE AllocExtendResult(chunks, <<value>>, 1, checks), 1)
    /\ args' = Args(1, 1)
    /\ hist' = [hist EXCEPT !.allocs = @ + 1]
    /\ reentry' = NoReentry

\* Arena::alloc_extend and IterableArena::alloc_extend on an iterator that
\* yields k elements and reports the lower bound iter_min_len.
AllocExtend ==
    /\ status = "live"
    /\ \E k \in 0..MaxBatch : \E iter_min_len \in 0..k :
       \E checks \in OverflowChecks(iter_min_len) :
          /\ Total(chunks) + k <= MaxElems
          /\ args' = Args(k, iter_min_len)
          /\ Allocated("alloc_extend",
                AllocExtendResult(chunks, Fresh(k), iter_min_len, checks), k)
    /\ hist' = [hist EXCEPT !.extends = TRUE]
    /\ reentry' = NoReentry

\* Arena::alloc_uninitialized.
AllocUninitialized ==
    /\ status = "live"
    /\ kind = "Arena"
    /\ \E num \in UninitNums : \E checks \in OverflowChecks(num) :
          /\ num <= MaxNum => Total(chunks) + num <= MaxElems
          /\ args' = Args(num, 0)
          /\ LET r == AllocUninitializedResult(chunks, num, checks)
             IN  /\ chunks' = r.chunks
                 /\ status' = r.status
                 /\ growth' = r.growth
                 /\ ret' = IF r.status = "live"
                           THEN Ret("alloc_uninitialized", r.start,
                                    Slice(r.chunks.current, r.start), None)
                           ELSE Ret("alloc_uninitialized", 0, <<>>, None)
    /\ hist' = [hist EXCEPT !.uninits = TRUE]
    /\ reentry' = NoReentry
    /\ sinceIter' = TRUE
    /\ UNCHANGED <<kind, iter, out, produced, refs, yielded>>

\* chunks.current.capacity() - chunks.current.len(), the length of the range
\* uninitialized_array returns.
SpareCapacityWhole(v) == v.cap

SpareCapacity(v) == v.cap - Len(v.items)

\* Arena::uninitialized_array.
UninitializedArray ==
    /\ status = "live"
    /\ kind = "Arena"
    /\ LET len == SpareCapacity(chunks.current)
           next_item_index == Len(chunks.current.items)
       IN  ret' = Ret("uninitialized_array", next_item_index, UninitSeq(len), None)
    /\ args' = Args(0, 0)
    /\ reentry' = NoReentry
    /\ UNCHANGED <<kind, chunks, iter, status, out, produced, refs, growth,
                   yielded, sinceIter, hist>>

\* Arena::into_vec and IterableArena::into_vec.
IntoVecCall ==
    /\ status = "live"
    /\ status' = "consumed"
    /\ out' = IntoVec(chunks)
    /\ args' = Args(0, 0)
    /\ ret' = Ret("into_vec", 0, <<>>, None)
    /\ reentry' = NoReentry
    /\ UNCHANGED <<kind, chunks, iter, produced, refs, growth, yielded,
                   sinceIter, hist>>

\* IterableArena::iter.
IterCall ==
    /\ status = "live"
    /\ kind = "IterableArena"
    /\ iter' = NewIter
    /\ yielded' = <<>>
    /\ sinceIter' = FALSE
    /\ args' = Args(0, 0)
    /\ ret' = Ret("iter", 0, <<>>, None)
    /\ reentry' = NoReentry
    /\ UNCHANGED <<kind, chunks, status, out, produced, refs, growth, hist>>

\* Iter::next on the Iter made by the last iter().
NextCall ==
    /\ status = "live"
    /\ iter.live
    /\ args' = Args(0, 0)
    /\ reentry' = NoReentry
    /\ LET r == IterNext(iter, chunks)
       IN  /\ iter' = r.iter
           /\ status' = r.status
           /\ ret' = Ret("next", 0, <<>>, r.val)
           /\ yielded' = IF r.val = None THEN yielded ELSE Append(yielded, r.val)
    /\ UNCHANGED <<kind, chunks, out, produced, refs, growth, sinceIter, hist>>

\* ------------------------------------------------- RefCell<ChunkList<T>>
\* RefCell::borrow_mut succeeds only on an unused cell; RefCell::borrow
\* succeeds unless the cell is mutably borrowed.
BorrowMutAlways(flag) == TRUE

BorrowMutOk(flag) == flag = "unused"

BorrowOk(flag) == flag # "writing"

BorrowPanics == {"already borrowed", "already mutably borrowed"}

InnerResult(cl, it, val, st) ==
    [chunks |-> cl, iter |-> it, val |-> val, status |-> st]

\* The call op made on the arena while its RefCell holds flag.
Inner(flag, op, cl, it, value) ==
    CASE op \in {"alloc", "alloc_extend", "alloc_uninitialized"} ->
            IF ~BorrowMutOk(flag)
            THEN InnerResult(cl, it, None, "already borrowed")
            ELSE LET r == CASE op = "alloc" ->
                                IF Len(cl.current.items) < cl.current.cap
                                THEN Result([cl EXCEPT !.current = VecPush(@, value)],
                                            0, "live", NoGrowth)
                                ELSE AllocExtendResult(cl, <<value>>, 1, TRUE)
                            [] op = "alloc_extend" ->
                                AllocExtendResult(cl, <<value>>, 0, TRUE)
                            [] OTHER ->
                                AllocUninitializedResult(cl, 1, TRUE)
                 IN  InnerResult(r.chunks, it, None, r.status)
      [] op = "uninitialized_array" ->
            IF ~BorrowOk(flag)
            THEN InnerResult(cl, it, None, "already mutably borrowed")
            ELSE InnerResult(cl, it, None, "live")
      [] OTHER ->
            IF it.done
            THEN InnerResult(cl, it, None, "live")
            ELSE IF ~BorrowOk(flag)
            THEN InnerResult(cl, it, None, "already mutably borrowed")
            ELSE LET r == IterNext(it, cl)
                 IN  InnerResult(cl, r.iter, r.val, r.status)

\* The calls the caller's iterator can make on the arena it is extending.
InnerOps ==
    {"alloc", "alloc_extend"}
        \cup (IF kind = "Arena"
              THEN {"alloc_uninitialized", "uninitialized_array"} ELSE {})
        \cup (IF kind = "IterableArena" /\ iter.live THEN {"next"} ELSE {})

\* alloc_extend going on after the inner call returned: pre is the Result of
\* the first at elements, cl the ChunkList the inner call left.
Continue(pre, cl, iter_rest, at) ==
    IF pre.growth.from = "none"
    THEN ExtendLoop(cl, iter_rest, at, pre.start)
    ELSE LET c == VecExtend(cl.current, iter_rest)
         IN  Result([cl EXCEPT !.current = c], pre.start, VecStatus(c), pre.growth)

\* alloc_extend on an iterator of k elements that, when asked for element
\* at + 1 (or for the end, at = k), calls op on the same arena.  The RefCell
\* is mutably borrowed from line 198 until alloc_extend returns or unwinds.
AllocExtendReentrant ==
    /\ status = "live"
    /\ \E k \in 0..MaxBatch : \E iter_min_len \in 0..k : \E at \in 0..k :
       \E checks \in OverflowChecks(iter_min_len) :
          /\ Total(chunks) + k <= MaxElems
          /\ args' = Args(k, iter_min_len)
          /\ \E pre \in {AllocExtendResult(chunks, Take(Fresh(k), at),
                                           iter_min_len, checks)} :
                /\ pre.status = "live"
                /\ \E op \in InnerOps :
                   \E inner \in {Inner("writing", op, pre.chunks, iter,
                                       produced + k + 1)} :
                   \E r \in {IF inner.status = "live"
                             THEN Continue(pre, inner.chunks,
                                           Drop(Fresh(k), at), at)
                             ELSE Result(inner.chunks, pre.start, inner.status,
                                         pre.growth)} :
                        /\ reentry' = [op |-> op, at |-> at]
                        /\ chunks' = r.chunks
                        /\ status' = r.status
                        /\ growth' = r.growth
                        /\ iter' = inner.iter
                        /\ yielded' = IF inner.val = None THEN yielded
                                      ELSE Append(yielded, inner.val)
                        /\ IF r.status = "live"
                           THEN /\ ret' = Ret("alloc_extend", r.start,
                                              Slice(r.chunks.current, r.start), None)
                                /\ produced' = produced + k
                                /\ refs' = refs \cup RefsTo(r.chunks, r.start)
                           ELSE /\ ret' = Ret("alloc_extend", 0, <<>>, None)
                                /\ UNCHANGED <<produced, refs>>
    /\ sinceIter' = TRUE
    /\ hist' = [hist EXCEPT !.extends = TRUE]
    /\ UNCHANGED <<kind, out>>

Next ==
    \/ Alloc
    \/ AllocExtend
    \/ AllocExtendReentrant
    \/ AllocUninitialized
    \/ UninitializedArray
    \/ IntoVecCall
    \/ IterCall
    \/ NextCall

Spec == Init /\ [][Next]_vars


\* ------------------------------------------------------------------- claims
IdSeq(n) == [j \in 1..n |-> j]

Caps(cl) == [j \in 1..Len(Chunks(cl)) |-> Chunks(cl)[j].cap]

IsPowerOfTwo(q) == \E e \in 0..(UsizeBits + 1) : q = 2 ^ e

AllocOps == {"alloc", "alloc_extend"}

\* C1: after any sequence of alloc and alloc_extend calls, into_vec() returns
\* exactly the produced elements in production order: its length is the number
\* of elements allocated and its i-th entry is the i-th element produced.
C1_IntoVecOrder ==
    (status = "consumed" /\ ~hist.uninits) =>
        /\ Len(out) = produced
        /\ \A j \in 1..produced : out[j] = j

C1_Witness ==
    /\ status = "consumed"
    /\ ~hist.uninits
    /\ growth.from = "splice"
    /\ Len(chunks.rest) >= 2
    /\ produced >= 4

\* C2: every reference returned by alloc or alloc_extend keeps pointing at the
\* same element: its (chunk, offset) location holds the value it was returned
\* for and the chunk's buffer has not been reallocated, after any later calls.
C2_RefsStable ==
    status = "live" =>
        \A r \in refs :
            LET c == Chunks(chunks)[r.chunk + 1]
            IN  /\ r.off < Len(c.items)
                /\ c.items[r.off + 1] = r.val
                /\ c.reallocs = r.reallocs

C2_Witness ==
    /\ status = "live"
    /\ hist.uninits
    /\ growth.from = "splice"
    /\ ret.op = "alloc_extend"
    /\ \E r \in refs : r.chunk + 1 < Len(chunks.rest)

\* C3: an Iter polled to its first None with no allocation in between has
\* yielded every element allocated so far exactly once, in allocation order.
C3_IterYieldsAll ==
    (status = "live" /\ iter.live /\ iter.done /\ ~sinceIter) =>
        yielded = IdSeq(produced)

\* C4: when next() and allocations interleave, the Iter has, at its first
\* None, yielded every element allocated until then, in allocation order.
C4_LiveIteration ==
    [][(iter.live /\ ~iter.done /\ iter'.done /\ sinceIter') =>
            yielded' = IdSeq(produced')]_vars

\* C5 as stated: after next() returned None and an element was then
\* allocated, the following next() yields that new element.
C5_Resumes ==
    [][(iter.live /\ iter.done /\ status = "live" /\ ret.op \in AllocOps
            /\ Len(ret.slice) > 0 /\ ret'.op = "next") =>
            ret'.val = ret.slice[1]]_vars

\* C5 amended: after next() returned None and an element was then allocated,
\* the following next() on the same Iter returns None again and yields nothing.
C5_StaysNone ==
    [][(iter.live /\ iter.done /\ status = "live" /\ ret.op \in AllocOps
            /\ Len(ret.slice) > 0 /\ ret'.op = "next") =>
            (ret'.val = None /\ yielded' = yielded /\ status' = "live")]_vars

C5_Witness ==
    /\ iter.live /\ iter.done
    /\ ret.op = "next" /\ ret.val = None
    /\ iter.chunk = Len(chunks.rest)
    /\ iter.i < Len(chunks.current.items)

\* C6: once next() has returned None, every later call on the same Iter leaves
\* the cursor unchanged and every later next() returns None, whatever is
\* allocated in between.
C6_Fused ==
    [][(iter.live /\ iter.done /\ ret'.op # "iter") =>
            /\ iter' = iter
            /\ ret'.op = "next" => (ret'.val = None /\ yielded' = yielded)]_vars

C6_Witness ==
    /\ iter.live /\ iter.done
    /\ ret.op = "next" /\ ret.val = None
    /\ iter.chunk < Len(chunks.rest)
    /\ Len(yielded) < produced


\* C7: every alloc_extend call that returns, for k >= 0 elements and any lower
\* bound hint <= k, returns a slice that is a suffix of the post-call current
\* chunk, of length exactly k, holding the k produced elements in production
\* order; no element of the call is left in a retired chunk.
C7_ExtendSlice ==
    [][(ret'.op = "alloc_extend" /\ status' = "live") =>
            LET k == args'.k
                cur == chunks'.current
            IN  /\ Len(ret'.slice) = k
                /\ \A j \in 1..k : ret'.slice[j] = produced + j
                /\ ret'.start + k = Len(cur.items)
                /\ \A j \in 1..k : cur.items[ret'.start + j] = produced + j
                /\ \A c \in 1..Len(chunks'.rest) :
                       \A j \in 1..Len(chunks'.rest[c].items) :
                           chunks'.rest[c].items[j] <= produced]_vars

C7_Witness ==
    /\ status = "live"
    /\ ret.op = "alloc_extend"
    /\ growth.from = "splice"
    /\ args.k = MaxBatch /\ args.hint < args.k
    /\ Len(ret.slice) = MaxBatch
    /\ Len(chunks.rest[Len(chunks.rest)].items) > 0

\* C8: when alloc_extend gets k elements whose hint fits the remaining room r
\* of the current chunk but r < k, exactly one chunk is added to rest, the
\* pre-call current chunk with exactly its pre-call elements, and the new
\* current chunk holds exactly the k elements of the call, in order.
C8_Splice ==
    [][(ret'.op = "alloc_extend" /\ status' = "live"
            /\ args'.hint <= chunks.current.cap - Len(chunks.current.items)
            /\ chunks.current.cap - Len(chunks.current.items) < args'.k
            /\ produced' = produced + args'.k) =>
            /\ chunks'.rest = Append(chunks.rest, chunks.current)
            /\ chunks'.current.items = [j \in 1..args'.k |-> produced + j]
            /\ ret'.slice = chunks'.current.items]_vars

C8_Witness ==
    /\ status = "live"
    /\ ret.op = "alloc_extend"
    /\ growth.from = "splice"
    /\ growth.req > 1
    /\ LET previous_chunk == chunks.rest[Len(chunks.rest)]
       IN  /\ Len(previous_chunk.items) > 0
           /\ Len(previous_chunk.items) + growth.req - 1 = previous_chunk.cap

\* C9: every ChunkList::reserve(k) that retires a current chunk of capacity c
\* creates the new current chunk empty with capacity max(2c, p), p the least
\* power of two >= k, which is at least k; whichever call triggered it.
C9_GrowthPolicy ==
    growth.from # "none" =>
        LET c == growth.old
            k == growth.req
            p == CHOOSE q \in 1..(2 * k) : IsPowerOfTwo(q) /\ q >= k /\ q < 2 * k
        IN  /\ k >= 1
            /\ growth.new = (IF 2 * c >= p THEN 2 * c ELSE p)
            /\ growth.new >= k
            /\ growth.len = 0
            /\ chunks.rest[Len(chunks.rest)].cap = c

C9_Witness ==
    /\ status = "live"
    /\ growth.from = "hint"
    /\ growth.new > 2 * growth.old
    /\ growth.req = MaxBatch
    /\ chunks.current.cap = growth.new

\* C10 as stated: from with_capacity(1), five alloc calls leave chunks of
\* capacities 1, 1, 2, 4, 8.
C10_CapsAsStated ==
    (status = "live" /\ hist.n = 1 /\ hist.allocs = 5
        /\ ~hist.extends /\ ~hist.uninits) =>
        Caps(chunks) = <<1, 1, 2, 4, 8>>

\* C10 amended: from with_capacity(1), five alloc calls leave chunks of
\* capacities 1, 2, 4 (two retired chunks and the current one).
C10_Caps ==
    (status = "live" /\ hist.n = 1 /\ hist.allocs = 5
        /\ ~hist.extends /\ ~hist.uninits) =>
        /\ Caps(chunks) = <<1, 2, 4>>
        /\ Len(chunks.rest) = 2

C10_Witness ==
    /\ status = "live" /\ hist.n = 1 /\ hist.allocs = 5
    /\ ~hist.extends /\ ~hist.uninits
    /\ ret.op = "alloc" /\ ret.val = 5
    /\ Total(chunks) = 5


Panicked(st) == st \notin {"live", "consumed"}

\* The reserve a call needs overflows: doubling the capacity or rounding the
\* request up to a power of two exceeds usize::MAX.
GrowOverflows(cap, additional) ==
    2 * cap > MaxUsize \/ ~(\E q \in additional..MaxUsize : IsPowerOfTwo(q))

\* C11: an allocation call whose capacity arithmetic (len + request, 2 * cap,
\* next power of two) exceeds usize::MAX panics without having used a wrapped
\* value, so it leaves the ChunkList as it was when the overflow occurred; and
\* no call leaves a chunk longer than its capacity.
C11_OverflowFatal ==
    [][LET len == Len(chunks.current.items)
           cap == chunks.current.cap
           room == cap - len
           request == IF ret'.op = "alloc_extend" THEN args'.hint ELSE args'.k
       IN  /\ (ret'.op \in {"alloc_extend", "alloc_uninitialized"}
                 /\ len + request > MaxUsize) =>
                 (Panicked(status') /\ chunks' = chunks)
           /\ (ret'.op \in {"alloc", "alloc_extend", "alloc_uninitialized"}
                 /\ len + request <= MaxUsize /\ len + request > cap
                 /\ GrowOverflows(cap, request)) =>
                 (Panicked(status') /\ chunks' = chunks)
           /\ (ret'.op = "alloc_extend" /\ request <= room /\ room < args'.k
                 /\ GrowOverflows(cap, room + 1)) =>
                 (Panicked(status') /\ Len(chunks'.rest) = Len(chunks.rest))
           /\ \A j \in 1..Len(Chunks(chunks')) :
                 Len(Chunks(chunks')[j].items) <= Chunks(chunks')[j].cap]_vars


\* C12 as stated: a call the iterator of a running alloc_extend makes on the
\* same arena (alloc, alloc_extend, alloc_uninitialized, uninitialized_array,
\* Iter::next) panics before it reads or modifies the ChunkList.
C12_InnerCallPanics ==
    [][reentry'.op # "none" =>
            /\ status' \in BorrowPanics
            /\ chunks' = AllocExtendResult(chunks, Take(Fresh(args'.k), reentry'.at),
                                           args'.hint, TRUE).chunks
            /\ iter' = iter]_vars

\* C12 amended: such an inner call panics before it reads or modifies the
\* ChunkList, except Iter::next on an Iter that already returned None, which
\* returns None without borrowing; either way no inner call changes the
\* ChunkList or the cursor, so the ChunkList is only ever changed by the one
\* running alloc_extend.
C12_NoInterleavedMutation ==
    [][reentry'.op # "none" =>
            /\ iter' = iter
            /\ yielded' = yielded
            /\ IF reentry'.op = "next" /\ iter.done
               THEN LET whole == AllocExtendResult(chunks, Fresh(args'.k),
                                                   args'.hint, TRUE)
                    IN  chunks' = whole.chunks /\ status' = whole.status
               ELSE /\ status' \in BorrowPanics
                    /\ chunks' = AllocExtendResult(chunks,
                                     Take(Fresh(args'.k), reentry'.at),
                                     args'.hint, TRUE).chunks
                    /\ produced' = produced
                    /\ refs' = refs]_vars

C12_Witness ==
    /\ reentry.op = "alloc"
    /\ reentry.at >= 2
    /\ status = "already borrowed"
    /\ ret.op = "alloc_extend"
    /\ growth.from = "splice"


\* C13: retired chunks are frozen: across every operation each chunk already in
\* rest stays at its index with the same contents and capacity, and rest
\* changes only by gaining one chunk at its end, which is the chunk that was
\* current when the operation began (or what the splice left of it).
IsPrefix(xs, ys) == Len(xs) <= Len(ys) /\ xs = Take(ys, Len(xs))

C13_RetiredFrozen ==
    [][/\ \A j \in 1..Len(chunks.rest) :
             /\ j <= Len(chunks'.rest)
             /\ chunks'.rest[j] = chunks.rest[j]
       /\ Len(chunks'.rest) <= Len(chunks.rest) + 1
       /\ Len(chunks'.rest) = Len(chunks.rest) + 1 =>
             LET retired == chunks'.rest[Len(chunks'.rest)]
             IN  /\ retired.cap = chunks.current.cap
                 /\ IsPrefix(retired.items, chunks.current.items)]_vars

\* Two chunks were retired, the last one by a splice that drained part of it.
C13_Witness ==
    /\ status = "live"
    /\ Len(chunks.rest) >= 2
    /\ growth.from = "splice"
    /\ Len(chunks.rest[1].items) > 0
    /\ Len(chunks.rest[Len(chunks.rest)].items) > 0
    /\ Len(chunks.rest[Len(chunks.rest)].items) < chunks.rest[Len(chunks.rest)].cap

\* C14: chunk capacity is fixed at creation: no chunk, current or retired, was
\* ever pushed beyond the capacity it was created with (its buffer was never
\* reallocated), the bulk extend of alloc_extend included.
C14_CapacityFixed ==
    \A j \in 1..Len(Chunks(chunks)) : Chunks(chunks)[j].reallocs = 0

\* The chunk an operation retired: the last of rest after it.
Retired(cl) == cl.rest[Len(cl.rest)]

\* C15: every chunk in rest is full or was retired by the batch-overrun splice
\* of alloc_extend: whenever an operation retires a chunk, the chunk is full
\* or the operation is an alloc_extend whose loop spliced.
C15_FullOrSpliced ==
    [][Len(chunks'.rest) > Len(chunks.rest) =>
          \/ Len(Retired(chunks').items) = Retired(chunks').cap
          \/ growth'.from = "splice"]_vars

\* C15 amended: a retired chunk is full, or was retired by the splice, or was
\* retired with spare capacity by the size-hint branch of alloc_extend or by
\* alloc_uninitialized because the request exceeded that spare capacity; alloc
\* retires only full chunks.
C15_FullSplicedOrNoRoom ==
    [][Len(chunks'.rest) > Len(chunks.rest) =>
          /\ \/ Len(Retired(chunks').items) = Retired(chunks').cap
             \/ growth'.from = "splice"
             \/ /\ growth'.from \in {"hint", "uninit"}
                /\ ret'.op \in {"alloc_extend", "alloc_uninitialized"}
                /\ Retired(chunks') = chunks.current
                /\ Len(chunks.current.items) + growth'.req > chunks.current.cap
          /\ ret'.op = "alloc" =>
                Len(Retired(chunks').items) = Retired(chunks').cap]_vars

\* rest holds a chunk retired with spare capacity by the size-hint branch and
\* one retired with spare capacity by alloc_uninitialized.
C15_Witness ==
    /\ status = "live"
    /\ Len(chunks.rest) >= 2
    /\ growth.from = "uninit"
    /\ ret.op = "alloc_uninitialized"
    /\ \A j \in 1..Len(chunks.rest) :
          /\ Len(chunks.rest[j].items) > 0
          /\ Len(chunks.rest[j].items) < chunks.rest[j].cap
    /\ hist.extends /\ hist.allocs = 0

\* C16: an allocation that fits is in place: alloc on a chunk with spare
\* capacity, or alloc_extend of k elements with k at most the spare capacity
\* (the empty sequence on a full chunk included), returns, appends exactly its
\* elements at the fill point of the current chunk and leaves rest, the
\* chunk's capacity and buffer and the elements stored before unchanged.  (A
\* call whose iterator panics appends only the elements it got before that.)
C16_FitsInPlace ==
    [][LET len == Len(chunks.current.items)
           room == chunks.current.cap - len
       IN  (ret'.op \in AllocOps /\ args'.k <= room) =>
              /\ reentry'.op = "none" => status' = "live"
              /\ chunks'.rest = chunks.rest
              /\ chunks'.current.cap = chunks.current.cap
              /\ chunks'.current.reallocs = chunks.current.reallocs
              /\ IsPrefix(chunks.current.items, chunks'.current.items)
              /\ growth' = NoGrowth
              /\ status' = "live" =>
                    /\ ret'.start = len
                    /\ Len(ret'.slice) = args'.k
                    /\ ret'.slice = [j \in 1..args'.k |-> produced + j]
                    /\ chunks'.current.items = chunks.current.items \o ret'.slice
                    /\ produced' = produced + args'.k]_vars

\* An alloc_extend of two or more elements filled exactly the spare capacity
\* of a chunk that already held elements.
C16_Witness ==
    /\ status = "live"
    /\ ret.op = "alloc_extend"
    /\ reentry.op = "none"
    /\ args.k >= 2
    /\ args.hint < args.k
    /\ ret.start > 0
    /\ Len(ret.slice) = args.k
    /\ growth = NoGrowth
    /\ Len(chunks.current.items) = chunks.current.cap
    /\ Len(chunks.rest) >= 1

\* C17: alloc_uninitialized(n) whose arithmetic does not overflow returns a
\* range of exactly n slots that is the tail of the current chunk as the call
\* leaves it, raises the number of allocated elements by exactly n, retires
\* the current chunk if and only if length + n exceeds its capacity, and
\* leaves the current chunk no longer than its capacity.
C17_UninitializedRange ==
    [][LET len == Len(chunks.current.items)
           cap == chunks.current.cap
           n == args'.k
           after == chunks'.current
       IN  (/\ ret'.op = "alloc_uninitialized"
            /\ len + n <= MaxUsize
            /\ len + n > cap => ~GrowOverflows(cap, n)) =>
              /\ status' = "live"
              /\ Len(ret'.slice) = n
              /\ ret'.start + n = Len(after.items)
              /\ ret'.slice = Drop(after.items, Len(after.items) - n)
              /\ Total(chunks') = Total(chunks) + n
              /\ len + n > cap =>
                    /\ Len(chunks'.rest) = Len(chunks.rest) + 1
                    /\ Retired(chunks') = chunks.current
              /\ len + n <= cap =>
                    /\ chunks'.rest = chunks.rest
                    /\ after.cap = cap
                    /\ Take(after.items, len) = chunks.current.items
              /\ Len(after.items) <= after.cap]_vars

\* alloc_uninitialized(2) retired a chunk that had one spare slot left.
C17_Witness ==
    /\ status = "live"
    /\ ret.op = "alloc_uninitialized"
    /\ args.k = 2
    /\ Len(ret.slice) = 2
    /\ growth.from = "uninit"
    /\ Len(chunks.rest) >= 1
    /\ Len(Retired(chunks).items) = Retired(chunks).cap - 1
    /\ Retired(chunks).cap >= 2

\* C18: uninitialized_array returns a range of capacity - length slots of the
\* current chunk, starting at its fill point, and changes nothing: the chunks,
\* their lengths and capacities, rest and the number of allocated elements
\* are what they were before the call.
C18_SpareRange ==
    [][ret'.op = "uninitialized_array" =>
          /\ Len(ret'.slice) = chunks.current.cap - Len(chunks.current.items)
          /\ ret'.start = Len(chunks.current.items)
          /\ \A j \in 1..Len(ret'.slice) : ret'.slice[j] = Uninit
          /\ chunks' = chunks
          /\ Total(chunks') = Total(chunks)
          /\ status' = status
          /\ produced' = produced
          /\ refs' = refs]_vars

\* uninitialized_array was called on a partly filled chunk after a growth.
C18_Witness ==
    /\ status = "live"
    /\ ret.op = "uninitialized_array"
    /\ ret.start > 0
    /\ Len(ret.slice) >= 2
    /\ ret.start + Len(ret.slice) = chunks.current.cap
    /\ Len(chunks.rest) >= 1

\* C19: Iter::next never reads outside a chunk: no call of next(), in any
\* interleaving with allocations, indexes a chunk at an offset that is not
\* below the chunk's length (Rust's bounds check would panic).
C19_NextInBounds == status # "index out of bounds"

\* C20: the arena made by with_capacity(n) has one empty current chunk of
\* capacity max(1, n) and no retired chunk; in every state reached from it the
\* current chunk's capacity is at least 1 and every chunk, current or retired,
\* is no longer than its capacity.
C20_CapacityInvariant ==
    /\ ret.op = "with_capacity" =>
          /\ chunks.rest = <<>>
          /\ chunks.current.items = <<>>
          /\ chunks.current.cap = (IF hist.n >= 1 THEN hist.n ELSE 1)
    /\ chunks.current.cap >= 1
    /\ \A j \in 1..Len(Chunks(chunks)) :
          Len(Chunks(chunks)[j].items) <= Chunks(chunks)[j].cap

\* From with_capacity(0), alloc, alloc_extend and alloc_uninitialized calls
\* retired two chunks and filled the current one to its capacity.
C20_Witness ==
    /\ status = "live"
    /\ hist.n = 0
    /\ hist.allocs >= 1 /\ hist.extends /\ hist.uninits
    /\ Len(chunks.rest) >= 2
    /\ Len(chunks.current.items) = chunks.current.cap
====
